---- MODULE Spec2Model ----
(***************************************************************************)
(* A model of src/app.py, the Flask backend of the MLB Player Analyzer:    *)
(* the /api/player-stats handler (get_player_stats), the /api/analyze      *)
(* handler (analyze_player) with its stat-line formatting, prompt          *)
(* assembly, text-service call and response parsing, and the lazily        *)
(* initialised text-generation client (get_gemini).                        *)
(*                                                                         *)
(* Python str values the code slices and searches are sequences of         *)
(* one-character strings; other Python / JSON values are tagged records.   *)
(***************************************************************************)
EXTENDS Integers, Sequences, FiniteSets, TLC

\* ------------------------------------------------------------------ bounds

\* Longest response text, in pieces (a marker or one character), of SpecParse.
MaxPieces == 5

\* Longest grade block, in characters, of SpecGrade.
MaxBlock == 4

\* ------------------------------------------------------- Python str helpers

Min(S) == CHOOSE x \in S : \A y \in S : x <= y

\* str.isspace() for the characters the model uses.
IsSpace(c) == c \in {" ", "\n"}

\* `pat in s` / s.index(pat): the 1-based position of the first occurrence
\* of pat in s, 0 when there is none.
Find(s, pat) ==
    LET I == {i \in 1..(Len(s) - Len(pat) + 1) : SubSeq(s, i, i + Len(pat) - 1) = pat}
    IN  IF I = {} THEN 0 ELSE Min(I)

Contains(s, pat) == Find(s, pat) # 0

\* s[a:b] with Python's 0-based, end-exclusive, clamped slice bounds.
PySlice(s, a, b) ==
    LET lo == IF a > Len(s) THEN Len(s) ELSE a
        hi == IF b > Len(s) THEN Len(s) ELSE b
    IN  IF lo >= hi THEN <<>> ELSE SubSeq(s, lo + 1, hi)

\* s.strip(): leading and trailing whitespace removed.
Strip(s) ==
    LET K == {i \in 1..Len(s) : ~IsSpace(s[i])}
    IN  IF K = {} THEN <<>>
        ELSE SubSeq(s, Min(K), CHOOSE j \in K : \A k \in K : k <= j)

\* s.split()[0] if s else "": the first whitespace-delimited token.
FirstToken(s) ==
    LET K == {i \in 1..Len(s) : ~IsSpace(s[i])}
    IN  IF K = {} THEN <<>>
        ELSE LET b == Min(K)
                 W == {i \in b..Len(s) : IsSpace(s[i])}
             IN  SubSeq(s, b, IF W = {} THEN Len(s) ELSE Min(W) - 1)

\* ------------------------------------------------------ literals of app.py

SUMMARY_MARK == <<"S", "U", "M", "M", "A", "R", "Y", ":">>
GRADE_MARK == <<"G", "R", "A", "D", "E", ":">>
GRADE_NOT_DETECTED ==
    <<"G", "r", "a", "d", "e", " ", "n", "o", "t", " ",
      "d", "e", "t", "e", "c", "t", "e", "d", ".">>

valid_grades ==
    { <<"A", "+">>, <<"A">>, <<"A", "-">>, <<"B", "+">>, <<"B">>, <<"B", "-">>,
      <<"C", "+">>, <<"C">>, <<"C", "-">>, <<"D", "+">>, <<"D">>, <<"D", "-">>,
      <<"F">> }

\* The list the fallback loop iterates, in its order.
ScanOrder ==
    << <<"A", "+">>, <<"A", "-">>, <<"B", "+">>, <<"B", "-">>,
       <<"C", "+">>, <<"C", "-">>, <<"D", "+">>, <<"D", "-">>,
       <<"A">>, <<"B">>, <<"C">>, <<"D">>, <<"F">> >>

\* --------------------------------------------------------- response parsing

\* A plausible slip: the loop walks the list without stopping at a hit, so
\* the last entry that occurs wins.
RECURSIVE ScanLast(_, _)
ScanLast(grade_block, k) ==
    IF k < 1 THEN <<>>
    ELSE IF Contains(grade_block, ScanOrder[k]) THEN ScanOrder[k]
    ELSE ScanLast(grade_block, k - 1)

ScanNoBreak(grade_block, k) == ScanLast(grade_block, Len(ScanOrder))

\* for g in [...]: if g in grade_block: grade_letter = g; break
RECURSIVE ScanGrades(_, _)
ScanGrades(grade_block, k) ==
    IF k > Len(ScanOrder) THEN <<>>
    ELSE IF Contains(grade_block, ScanOrder[k]) THEN ScanOrder[k]
    ELSE ScanGrades(grade_block, k + 1)

\* A plausible slip: the first token is taken without the membership test.
ExtractGradeUnchecked(grade_block) ==
    [grade_letter |-> FirstToken(grade_block), grade_text |-> grade_block]

\* A plausible slip: the fallback scan runs whatever the first token is.
ExtractGradeScanOnly(grade_block) ==
    LET g == ScanGrades(grade_block, 1)
    IN  [grade_letter |-> g,
         grade_text   |-> IF g = <<>> THEN <<>> ELSE grade_block]

\* The grade letter and grade text taken from a grade block.
ExtractGrade(grade_block) ==
    LET first_token == FirstToken(grade_block)
    IN  IF first_token \in valid_grades
        THEN [grade_letter |-> first_token, grade_text |-> grade_block]
        ELSE LET g == ScanGrades(grade_block, 1)
             IN  [grade_letter |-> g,
                  grade_text   |-> IF g = <<>> THEN <<>> ELSE grade_block]

\* "SUMMARY:" in raw and "GRADE:" in raw
BothMarkers(raw) == Contains(raw, SUMMARY_MARK) /\ Contains(raw, GRADE_MARK)

\* raw[grade_start + len("GRADE:"):].strip()
GradeBlockOf(raw) ==
    Strip(PySlice(raw, (Find(raw, GRADE_MARK) - 1) + Len(GRADE_MARK), Len(raw)))

\* raw[summary_start:grade_start].strip()
SummaryOf(raw) ==
    Strip(PySlice(raw, (Find(raw, SUMMARY_MARK) - 1) + Len(SUMMARY_MARK),
                  Find(raw, GRADE_MARK) - 1))

\* A plausible slip: the else branch leaves summary at its initial "".
ParseRawNoSummary(raw) ==
    IF BothMarkers(raw)
    THEN LET g == ExtractGrade(GradeBlockOf(raw))
         IN  [summary      |-> SummaryOf(raw),
              grade_letter |-> g.grade_letter,
              grade_text   |-> g.grade_text]
    ELSE [summary |-> <<>>, grade_letter |-> <<>>, grade_text |-> GRADE_NOT_DETECTED]

\* The summary, grade letter and grade text parsed out of the raw text.
ParseRaw(raw) ==
    IF BothMarkers(raw)
    THEN LET g == ExtractGrade(GradeBlockOf(raw))
         IN  [summary      |-> SummaryOf(raw),
              grade_letter |-> g.grade_letter,
              grade_text   |-> g.grade_text]
    ELSE [summary |-> raw, grade_letter |-> <<>>, grade_text |-> GRADE_NOT_DETECTED]

\* ------------------------------------------------- Python and JSON values

PyNone == [t |-> "None"]
PyStr(s) == [t |-> "str", s |-> s]
PyInt(i) == [t |-> "int", i |-> i]
\* A float, held in ten-thousandths (f = 2876 is 0.2876).
PyFloat(f) == [t |-> "float", f |-> f]
PyNaN == [t |-> "nan"]
\* A dict: d is the mapping from its keys to its values.
PyDict(d) == [t |-> "dict", d |-> d]
\* A JSON array of n elements.
PyList(n) == [t |-> "list", n |-> n]
\* The outcome of an expression that raises.
Raises == [t |-> "raise"]

\* bool(v): the truth value `not v` negates.
Truthy(v) ==
    CASE v.t = "None"  -> FALSE
      [] v.t = "str"   -> v.s # ""
      [] v.t = "int"   -> v.i # 0
      [] v.t = "float" -> v.f # 0
      [] v.t = "nan"   -> TRUE
      [] v.t = "dict"  -> DOMAIN v.d # {}
      [] v.t = "list"  -> v.n # 0

\* d.get(k): None when the key is absent.
Get(d, k) == IF k \in DOMAIN d THEN d[k] ELSE PyNone

\* row.get(col, default) on a row of a DataFrame.
RowGet(row, col, default) == IF col \in DOMAIN row THEN row[col] ELSE default

\* int(v): truncation towards zero; NaN and non-numeric text raise ValueError.
ToInt(v) ==
    CASE v.t = "int"   -> v
      [] v.t = "float" -> PyInt(IF v.f >= 0 THEN v.f \div 10000
                                ELSE -((-v.f) \div 10000))
      [] OTHER         -> Raises

\* float(v): NaN stays NaN, non-numeric text raises ValueError.
ToFloat(v) ==
    CASE v.t = "int"   -> PyFloat(v.i * 10000)
      [] v.t = "float" -> v
      [] v.t = "nan"   -> v
      [] OTHER         -> Raises

\* round(x, ndigits) for ndigits in 1..3: to the nearest multiple of
\* 10^-ndigits, a decimal tie going to the even neighbour; NaN stays NaN.
Round(v, ndigits) ==
    IF v.t # "float" THEN v
    ELSE LET unit == IF ndigits = 1 THEN 1000 ELSE IF ndigits = 2 THEN 100 ELSE 10
             q    == v.f \div unit
             rem  == v.f % unit
             up   == (2 * rem > unit) \/ (2 * rem = unit /\ q % 2 = 1)
         IN  PyFloat((IF up THEN q + 1 ELSE q) * unit)

\* int(row.get(col, 0))
IntField(row, col) == ToInt(RowGet(row, col, PyInt(0)))

\* round(float(row.get(col, 0)), ndigits)
FloatField(row, col, ndigits) == Round(ToFloat(RowGet(row, col, PyInt(0))), ndigits)

\* ----------------------------------------------------- /api/player-stats

\* The stats dict of the Batter branch.
BatterStats(player_name, year, row) ==
    [ name         |-> player_name,
      year         |-> year,
      type         |-> PyStr("Batter"),
      team         |-> RowGet(row, "Team", PyStr("N/A")),
      games        |-> IntField(row, "G"),
      at_bats      |-> IntField(row, "AB"),
      hits         |-> IntField(row, "H"),
      doubles      |-> IntField(row, "2B"),
      triples      |-> IntField(row, "3B"),
      home_runs    |-> IntField(row, "HR"),
      rbi          |-> IntField(row, "RBI"),
      stolen_bases |-> IntField(row, "SB"),
      walks        |-> IntField(row, "BB"),
      strikeouts   |-> IntField(row, "SO"),
      avg          |-> FloatField(row, "AVG", 3),
      obp          |-> FloatField(row, "OBP", 3),
      slg          |-> FloatField(row, "SLG", 3),
      ops          |-> FloatField(row, "OPS", 3),
      war          |-> FloatField(row, "WAR", 1),
      wrc_plus     |-> IF "wRC+" \in DOMAIN row THEN IntField(row, "wRC+")
                       ELSE PyStr("N/A") ]

\* The stats dict of the other (pitcher) branch.
PitcherStats(player_name, year, row) ==
    [ name            |-> player_name,
      year            |-> year,
      type            |-> PyStr("Pitcher"),
      team            |-> RowGet(row, "Team", PyStr("N/A")),
      games           |-> IntField(row, "G"),
      games_started   |-> IntField(row, "GS"),
      wins            |-> IntField(row, "W"),
      losses          |-> IntField(row, "L"),
      saves           |-> IntField(row, "SV"),
      innings_pitched |-> FloatField(row, "IP", 1),
      strikeouts      |-> IntField(row, "SO"),
      walks           |-> IntField(row, "BB"),
      era             |-> FloatField(row, "ERA", 2),
      whip            |-> FloatField(row, "WHIP", 2),
      k9              |-> IF "K/9" \in DOMAIN row THEN FloatField(row, "K/9", 1)
                          ELSE PyStr("N/A"),
      bb9             |-> IF "BB/9" \in DOMAIN row THEN FloatField(row, "BB/9", 1)
                          ELSE PyStr("N/A"),
      fip             |-> IF "FIP" \in DOMAIN row THEN FloatField(row, "FIP", 2)
                          ELSE PyStr("N/A"),
      war             |-> FloatField(row, "WAR", 1) ]

\* The rows of df whose Name equals player_name: df[df["Name"] == player_name].
\* A frame without a Name column raises KeyError.
PlayerRows(df, player_name) ==
    IF "Name" \notin df.columns THEN Raises
    ELSE [t |-> "rows",
          rows |-> SelectSeq(df.rows, LAMBDA row : row["Name"] = player_name)]

\* --------------------------------------------------------- /api/analyze

\* The (label, payload key) pairs of the Batter stat lines, in their order.
BatterLines ==
    << <<"Games", "games">>, <<"At-Bats", "at_bats">>, <<"Hits", "hits">>,
       <<"Batting Average (AVG)", "avg">>, <<"On-Base Percentage (OBP)", "obp">>,
       <<"Slugging Percentage (SLG)", "slg">>, <<"OPS", "ops">>,
       <<"Home Runs (HR)", "home_runs">>, <<"RBI", "rbi">>,
       <<"Stolen Bases (SB)", "stolen_bases">>, <<"Walks (BB)", "walks">>,
       <<"Strikeouts (SO)", "strikeouts">>, <<"Doubles (2B)", "doubles">>,
       <<"Triples (3B)", "triples">>, <<"WAR", "war">>, <<"wRC+", "wrc_plus">> >>

\* The (label, payload key) pairs of the pitcher stat lines, in their order.
PitcherLines ==
    << <<"Games", "games">>, <<"Games Started (GS)", "games_started">>,
       <<"Wins", "wins">>, <<"Losses", "losses">>, <<"Saves", "saves">>,
       <<"Innings Pitched (IP)", "innings_pitched">>, <<"ERA", "era">>,
       <<"WHIP", "whip">>, <<"Strikeouts (K)", "strikeouts">>,
       <<"Walks (BB)", "walks">>, <<"K/9", "k9">>, <<"BB/9", "bb9">>,
       <<"FIP", "fip">>, <<"WAR", "war">> >>

BatterBenchmarks ==
    "Use these grade benchmarks for a position player:\n  A+ = MVP-caliber (WAR 7+, OPS 1.000+)\n  A  = All-Star level (WAR 5-7, OPS .900-.999)\n  B  = Above average starter (WAR 3-5, OPS .800-.899)\n  C  = Average MLB starter (WAR 1-3, OPS .700-.799)\n  D  = Below average / fringe starter (WAR 0-1, OPS .600-.699)\n  F  = Replacement level or worse (WAR < 0, OPS below .600)"

PitcherBenchmarks ==
    "Use these grade benchmarks for a pitcher:\n  A+ = Cy Young-caliber (WAR 7+, ERA sub-2.50)\n  A  = Top-of-rotation / elite closer (WAR 4-7, ERA 2.50-3.25)\n  B  = Solid starter or high-leverage reliever (WAR 2-4, ERA 3.25-3.75)\n  C  = League-average (WAR 1-2, ERA 3.75-4.50)\n  D  = Below average (WAR 0-1, ERA 4.50-5.50)\n  F  = Replacement level or worse (WAR < 0, ERA 5.50+)"

\* f"Label: {data.get(key)}" for each pair of the table: the line's label,
\* the payload key it reads and the value it renders.
StatLines(table, d) ==
    [i \in 1..Len(table) |->
        [label |-> table[i][1], key |-> table[i][2], value |-> Get(d, table[i][2])]]

\* A plausible slip: the benchmark table is chosen apart from the stat
\* lines, and the pitcher branch is left with the batter's table.
RoleBranchMixed(d) ==
    IF Get(d, "type") = PyStr("Batter")
    THEN [stat_lines       |-> StatLines(BatterLines, d),
          role_context     |-> "position player (batter)",
          grade_benchmarks |-> BatterBenchmarks]
    ELSE [stat_lines       |-> StatLines(PitcherLines, d),
          role_context     |-> "pitcher",
          grade_benchmarks |-> BatterBenchmarks]

\* A plausible slip: a stat line is left out of the Batter list.
RoleBranchShort(d) ==
    IF Get(d, "type") = PyStr("Batter")
    THEN [stat_lines       |-> StatLines(SubSeq(BatterLines, 1, Len(BatterLines) - 1), d),
          role_context     |-> "position player (batter)",
          grade_benchmarks |-> BatterBenchmarks]
    ELSE [stat_lines       |-> StatLines(PitcherLines, d),
          role_context     |-> "pitcher",
          grade_benchmarks |-> PitcherBenchmarks]

\* if player_type == "Batter": ... else: ...  The stat lines, the role
\* context and the benchmark table the branch sets together.
RoleBranch(d) ==
    IF Get(d, "type") = PyStr("Batter")
    THEN [stat_lines       |-> StatLines(BatterLines, d),
          role_context     |-> "position player (batter)",
          grade_benchmarks |-> BatterBenchmarks]
    ELSE [stat_lines       |-> StatLines(PitcherLines, d),
          role_context     |-> "pitcher",
          grade_benchmarks |-> PitcherBenchmarks]

\* The f-string prompt: its fixed text is left out, its slots are kept.
Prompt(d, role) ==
    [name             |-> Get(d, "name"),
     year             |-> Get(d, "year"),
     role_context     |-> role.role_context,
     grade_benchmarks |-> role.grade_benchmarks,
     stats_block      |-> role.stat_lines]

\* --------------------------------------------------------------- state

\* The requests in flight.
Req == {"r1", "r2"}

VARIABLES
    pc,         \* where each request's handler stands
    endpoint,   \* the route each request came in on
    data,       \* the query arguments or the JSON body of each request
    df,         \* the DataFrame a player-stats request got from the provider
    role,       \* stat_lines, role_context and grade_benchmarks of an analysis
    prompt,     \* the prompt of an analysis
    client,     \* what get_gemini() returned to an analysis
    response,   \* what generate_content returned to an analysis
    parsed,     \* summary, grade_letter and grade_text of an analysis
    result,     \* the HTTP response of each request
    stages,     \* the stages each request went through, in order
    _gemini      \* the module global _gemini

vars == <<pc, endpoint, data, df, role, prompt, client, response, parsed,
          result, stages, _gemini>>

NoResult == [status |-> 0, body |-> PyNone]

\* str values held as character sequences.
PyText(c) == [t |-> "text", c |-> c]

\* jsonify({"error": msg}), status
ErrorResult(status, msg) == [status |-> status, body |-> PyDict([error |-> PyStr(msg)])]

\* What the framework answers when the view function itself raises.
Unhandled == [status |-> 500, body |-> [t |-> "unhandled exception"]]

Init ==
    /\ pc = [r \in Req |-> "new"]
    /\ endpoint = [r \in Req |-> "none"]
    /\ data = [r \in Req |-> PyNone]
    /\ df = [r \in Req |-> PyNone]
    /\ role = [r \in Req |-> PyNone]
    /\ prompt = [r \in Req |-> PyNone]
    /\ client = [r \in Req |-> PyNone]
    /\ response = [r \in Req |-> PyNone]
    /\ parsed = [r \in Req |-> PyNone]
    /\ result = [r \in Req |-> NoResult]
    /\ stages = [r \in Req |-> <<>>]
    /\ _gemini = PyNone

\* return jsonify(...), status: the handler of r ends with res.
Return(r, res, passed) ==
    /\ result' = [result EXCEPT ![r] = res]
    /\ stages' = [stages EXCEPT ![r] = stages[r] \o passed \o <<"response">>]
    /\ pc' = [pc EXCEPT ![r] = "done"]

\* The handler of r moves on to the step at.
Goto(r, at, passed) ==
    /\ pc' = [pc EXCEPT ![r] = at]
    /\ stages' = [stages EXCEPT ![r] = stages[r] \o passed]
    /\ UNCHANGED result

\* ------------------------------------------------------- provider frames

\* A DataFrame: its column labels and its rows, each a mapping from the
\* columns to values.
Frame(columns, rows) == [t |-> "DataFrame", columns |-> columns, rows |-> rows]

Without(f, K) == [k \in DOMAIN f \ K |-> f[k]]

AnnBatting ==
    [c \in {"Name", "Team", "G", "AB", "H", "2B", "3B", "HR", "RBI", "SB", "BB",
            "SO", "AVG", "OBP", "SLG", "OPS", "WAR", "wRC+"} |->
        CASE c = "Name" -> PyStr("Ann")
          [] c = "Team" -> PyStr("NYY")
          [] c = "AVG"  -> PyFloat(2876)
          [] c = "OBP"  -> PyFloat(3612)
          [] c = "SLG"  -> PyFloat(5108)
          [] c = "OPS"  -> PyFloat(8720)
          [] c = "WAR"  -> PyFloat(52700)
          [] c = "wRC+" -> PyFloat(1416000)
          [] OTHER      -> PyInt(30)]

AnnPitching ==
    [c \in {"Name", "Team", "G", "GS", "W", "L", "SV", "IP", "SO", "BB", "ERA",
            "WHIP", "K/9", "BB/9", "FIP", "WAR"} |->
        CASE c = "Name" -> PyStr("Ann")
          [] c = "Team" -> PyStr("NYY")
          [] c = "IP"   -> PyFloat(1801000)
          [] c = "ERA"  -> PyFloat(21040)
          [] c = "WHIP" -> PyFloat(10130)
          [] c = "K/9"  -> PyFloat(98700)
          [] c = "BB/9" -> PyFloat(21300)
          [] c = "FIP"  -> PyFloat(28760)
          [] c = "WAR"  -> PyFloat(-3400)
          [] OTHER      -> PyInt(12)]

\* The frames the provider may return for one season: the player's row alone
\* or after another player's, a season whose schema lacks the optional
\* columns, a NaN cell in an integer and in a float column, no matching row,
\* no rows, and no Name column.
FramesOf(row) ==
    LET other == [row EXCEPT !["Name"] = PyStr("Bob")]
        old   == Without(row, {"wRC+", "K/9", "BB/9", "FIP", "Team"})
    IN  { Frame(DOMAIN row, <<row>>),
          Frame(DOMAIN row, <<other, row>>),
          Frame(DOMAIN old, <<old>>),
          Frame(DOMAIN row, <<[row EXCEPT !["G"] = PyNaN]>>),
          Frame(DOMAIN row, <<[row EXCEPT !["WAR"] = PyNaN]>>),
          Frame(DOMAIN row, <<other>>),
          Frame(DOMAIN row, <<>>),
          Frame(DOMAIN row \ {"Name"}, <<Without(row, {"Name"})>>) }

\* pybaseball.batting_stats for "Batter", pybaseball.pitching_stats otherwise.
ProviderFrames(player_type) ==
    IF player_type = PyStr("Batter") THEN FramesOf(AnnBatting) ELSE FramesOf(AnnPitching)

\* ------------------------------------------------ get_player_stats steps

\* A plausible slip: the empty check is left out, so iloc[0] on no rows
\* raises IndexError and a missing player is answered with 500.
StatsResultNoEmptyCheck(d, frame) ==
    LET player_row == PlayerRows(frame, d.name)
    IN  IF player_row = Raises \/ player_row.rows = <<>>
        THEN ErrorResult(500, "str(e)")
        ELSE LET row   == player_row.rows[1]
                 stats == IF d.type = PyStr("Batter")
                          THEN BatterStats(d.name, d.year, row)
                          ELSE PitcherStats(d.name, d.year, row)
             IN  IF \E k \in DOMAIN stats : stats[k] = Raises
                 THEN ErrorResult(500, "str(e)")
                 ELSE [status |-> 200, body |-> PyDict(stats)]

\* The body of the try block once the provider has returned frame: the row
\* selection, the empty check and the stats dict.
StatsResult(d, frame) ==
    LET player_row == PlayerRows(frame, d.name)
    IN  IF player_row = Raises THEN ErrorResult(500, "str(e)")
        ELSE IF player_row.rows = <<>> THEN ErrorResult(404, "Player not found")
        ELSE LET row   == player_row.rows[1]
                 stats == IF d.type = PyStr("Batter")
                          THEN BatterStats(d.name, d.year, row)
                          ELSE PitcherStats(d.name, d.year, row)
             IN  IF \E k \in DOMAIN stats : stats[k] = Raises
                 THEN ErrorResult(500, "str(e)")
                 ELSE [status |-> 200, body |-> PyDict(stats)]

\* request.args.get("name"), request.args.get("year", type=int),
\* request.args.get("type", "Batter")
ReceiveStats(r, Names, Years, Types) ==
    /\ pc[r] = "new"
    /\ \E n \in Names, y \in Years, ty \in Types :
          data' = [data EXCEPT ![r] =
                     [name |-> n, year |-> y,
                      type |-> IF ty = PyNone THEN PyStr("Batter") ELSE ty]]
    /\ endpoint' = [endpoint EXCEPT ![r] = "stats"]
    /\ pc' = [pc EXCEPT ![r] = "ps_validate"]
    /\ UNCHANGED <<df, role, prompt, client, response, parsed, result, stages, _gemini>>

\* if not player_name or not year: return ..., 400
ValidateStats(r) ==
    /\ pc[r] = "ps_validate"
    /\ IF ~Truthy(data[r].name) \/ ~Truthy(data[r].year)
       THEN Return(r, ErrorResult(400, "Player name and year are required"),
                   <<"validation">>)
       ELSE Goto(r, "ps_lookup", <<"validation">>)
    /\ UNCHANGED <<endpoint, data, df, role, prompt, client, response, parsed, _gemini>>

\* pybaseball.batting_stats / pitching_stats: a frame, or an exception.
LookupStats(r) ==
    /\ pc[r] = "ps_lookup"
    /\ \E out \in {Raises} \cup ProviderFrames(data[r].type) :
          /\ df' = [df EXCEPT ![r] = out]
          /\ IF out = Raises
             THEN Return(r, ErrorResult(500, "str(e)"), <<"lookup">>)
             ELSE Goto(r, "ps_build", <<"lookup">>)
    /\ UNCHANGED <<endpoint, data, role, prompt, client, response, parsed, _gemini>>

\* The row selection, the 404, the stats dict and jsonify(stats).
BuildStats(r) ==
    /\ pc[r] = "ps_build"
    /\ Return(r, StatsResult(data[r], df[r]), <<"build">>)
    /\ UNCHANGED <<endpoint, data, df, role, prompt, client, response, parsed, _gemini>>

StatsStep(r, Names, Years, Types) ==
    \/ ReceiveStats(r, Names, Years, Types)
    \/ ValidateStats(r)
    \/ LookupStats(r)
    \/ BuildStats(r)

\* ------------------------------------------------- analyze_player steps

\* data = request.get_json()
ReceiveAnalyze(r, Bodies) ==
    /\ pc[r] = "new"
    /\ \E b \in Bodies : data' = [data EXCEPT ![r] = b]
    /\ endpoint' = [endpoint EXCEPT ![r] = "analyze"]
    /\ pc' = [pc EXCEPT ![r] = "validate"]
    /\ UNCHANGED <<df, role, prompt, client, response, parsed, result, stages, _gemini>>

\* The two presence checks before the try block. data.get on a body that is
\* no dict raises AttributeError there, outside the try.
ValidateAnalyze(r) ==
    /\ pc[r] = "validate"
    /\ LET d == data[r]
       IN  IF ~Truthy(d)
           THEN Return(r, ErrorResult(400, "No data provided"), <<"validation">>)
           ELSE IF d.t # "dict"
           THEN Return(r, Unhandled, <<"validation">>)
           ELSE IF \/ ~Truthy(Get(d.d, "name"))
                   \/ ~Truthy(Get(d.d, "year"))
                   \/ ~Truthy(Get(d.d, "type"))
           THEN Return(r, ErrorResult(400, "name, year, and type are required"),
                       <<"validation">>)
           ELSE Goto(r, "format", <<"validation">>)
    /\ UNCHANGED <<endpoint, data, df, role, prompt, client, response, parsed, _gemini>>

\* The role branch: stat_lines, role_context, grade_benchmarks.
FormatStatLines(r) ==
    /\ pc[r] = "format"
    /\ role' = [role EXCEPT ![r] = RoleBranch(data[r].d)]
    /\ Goto(r, "assemble", <<"formatting">>)
    /\ UNCHANGED <<endpoint, data, df, prompt, client, response, parsed, _gemini>>

\* stats_block and the prompt f-string.
AssemblePrompt(r) ==
    /\ pc[r] = "assemble"
    /\ prompt' = [prompt EXCEPT ![r] = Prompt(data[r].d, role[r])]
    /\ Goto(r, "get_gemini", <<"assembly">>)
    /\ UNCHANGED <<endpoint, data, df, role, client, response, parsed, _gemini>>

\* get_gemini: if _gemini is None
GeminiCheck(r) ==
    /\ pc[r] = "get_gemini"
    /\ IF _gemini = PyNone
       THEN Goto(r, "gemini_init", <<>>)
       ELSE Goto(r, "gemini_return", <<>>)
    /\ UNCHANGED <<endpoint, data, df, role, prompt, client, response, parsed, _gemini>>

\* get_gemini: import vertexai, vertexai.init(...), _gemini = GenerativeModel(...).
\* Either the global is bound to a new client object, or a step raises and
\* the handler's except answers 500.
GeminiInit(r) ==
    /\ pc[r] = "gemini_init"
    /\ \E ok \in BOOLEAN :
          IF ok
          THEN /\ _gemini' = [t |-> "GenerativeModel", by |-> r]
               /\ Goto(r, "gemini_return", <<>>)
          ELSE /\ Return(r, ErrorResult(500, "str(e)"), <<>>)
               /\ UNCHANGED _gemini
    /\ UNCHANGED <<endpoint, data, df, role, prompt, client, response, parsed>>

\* get_gemini: return _gemini
GeminiReturn(r) ==
    /\ pc[r] = "gemini_return"
    /\ client' = [client EXCEPT ![r] = _gemini]
    /\ Goto(r, "call", <<>>)
    /\ UNCHANGED <<endpoint, data, df, role, prompt, response, parsed, _gemini>>

\* A plausible slip: a failed call is tried again.
CallFailedRetry(r) == Goto(r, "call", <<"call">>)

\* generate_content raised: the except answers 500.
CallFailed(r) == Return(r, ErrorResult(500, "str(e)"), <<"call">>)

\* .generate_content(prompt): the call raises, or returns a response whose
\* .text is a text or itself raises.
GenerateContent(r, Texts) ==
    /\ pc[r] = "call"
    /\ \E out \in {Raises, [t |-> "response", ok |-> FALSE, text |-> <<>>]}
                  \cup {[t |-> "response", ok |-> TRUE, text |-> x] : x \in Texts} :
          IF out = Raises
          THEN CallFailed(r) /\ UNCHANGED response
          ELSE /\ response' = [response EXCEPT ![r] = out]
               /\ Goto(r, "parse", <<"call">>)
    /\ UNCHANGED <<endpoint, data, df, role, prompt, client, parsed, _gemini>>

\* raw = response.text.strip() and the marker parsing.
ParseResponse(r) ==
    /\ pc[r] = "parse"
    /\ IF ~response[r].ok
       THEN Return(r, ErrorResult(500, "str(e)"), <<"parsing">>) /\ UNCHANGED parsed
       ELSE /\ parsed' = [parsed EXCEPT ![r] = ParseRaw(Strip(response[r].text))]
            /\ Goto(r, "respond", <<"parsing">>)
    /\ UNCHANGED <<endpoint, data, df, role, prompt, client, response, _gemini>>

\* return jsonify({"summary": ..., "grade": ..., "grade_text": ...})
Respond(r) ==
    /\ pc[r] = "respond"
    /\ Return(r, [status |-> 200,
                  body   |-> PyDict([summary    |-> PyText(parsed[r].summary),
                                     grade      |-> PyText(parsed[r].grade_letter),
                                     grade_text |-> PyText(parsed[r].grade_text)])],
              <<>>)
    /\ UNCHANGED <<endpoint, data, df, role, prompt, client, response, parsed, _gemini>>

\* The steps of the handler once the body is read.
AnalyzeRun(r, Texts) ==
    \/ ValidateAnalyze(r)
    \/ FormatStatLines(r)
    \/ AssemblePrompt(r)
    \/ GeminiCheck(r)
    \/ GeminiInit(r)
    \/ GeminiReturn(r)
    \/ GenerateContent(r, Texts)
    \/ ParseResponse(r)
    \/ Respond(r)

AnalyzeStep(r, Bodies, Texts) == ReceiveAnalyze(r, Bodies) \/ AnalyzeRun(r, Texts)

\* --------------------------------------------------------------- inputs

StatsNames == {PyNone, PyStr(""), PyStr("Ann"), PyStr("Zed")}
StatsYears == {PyNone, PyInt(0), PyInt(2023)}
StatsTypes == {PyNone, PyStr("Batter"), PyStr("Pitcher")}


BatterPayload == BatterStats(PyStr("Ann"), PyInt(2023), AnnBatting)
PitcherPayload == PitcherStats(PyStr("Ann"), PyInt(2023), AnnPitching)

\* The JSON bodies posted to /api/analyze: null, an empty object, an array,
\* full Batter and Pitcher payloads, a payload of another type, and payloads
\* with name, year or type absent, empty or zero.
AnalyzeBodies ==
    { PyNone, PyDict(<<>>), PyList(0), PyList(1),
      PyDict(BatterPayload), PyDict(PitcherPayload),
      PyDict([BatterPayload EXCEPT !.type = PyStr("Catcher")]),
      PyDict(Without(BatterPayload, {"name"})),
      PyDict(Without(BatterPayload, {"year"})),
      PyDict(Without(PitcherPayload, {"type"})),
      PyDict([BatterPayload EXCEPT !.name = PyStr("")]),
      PyDict([PitcherPayload EXCEPT !.year = PyInt(0)]) }

\* The concatenations of at most n members of P.
RECURSIVE Concats(_, _)
Concats(P, n) ==
    IF n = 0 THEN {<<>>}
    ELSE LET S == Concats(P, n - 1) IN S \cup {s \o p : s \in S, p \in P}

\* Response texts of the handler specifications: a well-formed one, one
\* without markers and one with the GRADE: marker only.
SampleTexts ==
    { <<" ">> \o SUMMARY_MARK \o <<" ", "o", "k", "\n">> \o GRADE_MARK
          \o <<" ", "B", "+", " ", "o", "k", "\n">>,
      <<"o", "k", " ">>,
      GRADE_MARK \o <<"C">> }

\* Response texts made of markers and characters, in any order.
ParseTexts == Concats({SUMMARY_MARK, GRADE_MARK, <<"B">>, <<"+">>, <<" ">>, <<"x">>},
                      MaxPieces)

\* Well-formed response texts with every grade block over a small alphabet.
GradeTexts ==
    {SUMMARY_MARK \o <<"x">> \o GRADE_MARK \o b :
        b \in Concats({<<"A">>, <<"B">>, <<"+">>, <<"-">>, <<" ">>, <<"x">>}, MaxBlock)}

\* The client posts the 200 response of an answered /api/player-stats
\* request, unchanged, to /api/analyze.
FeedStats(r) ==
    ReceiveAnalyze(r, {result[s].body : s \in {q \in Req : /\ endpoint[q] = "stats"
                                                           /\ pc[q] = "done"
                                                           /\ result[q].status = 200}})

\* ------------------------------------------------------- specifications

\* Two /api/analyze requests handled concurrently.
Next == \E r \in Req : AnalyzeStep(r, AnalyzeBodies, SampleTexts)

Spec == Init /\ [][Next]_vars

\* A /api/player-stats request, and a /api/analyze request whose body is the
\* response of the first, unchanged.
NextStats ==
    \/ StatsStep("r1", StatsNames, StatsYears, StatsTypes)
    \/ FeedStats("r2")
    \/ AnalyzeRun("r2", SampleTexts)

SpecStats == Init /\ [][NextStats]_vars

\* One /api/analyze request over the response texts of ParseTexts.
NextParse == AnalyzeStep("r1", {PyDict(BatterPayload)}, ParseTexts)

SpecParse == Init /\ [][NextParse]_vars

\* One /api/analyze request over the grade blocks of GradeTexts.
NextGrade == AnalyzeStep("r1", {PyDict(BatterPayload)}, GradeTexts)

SpecGrade == Init /\ [][NextGrade]_vars

\* --------------------------------------------------------------- claims

\* The requests on /api/analyze whose response text has been parsed.
Parsed == {r \in Req : endpoint[r] = "analyze" /\ parsed[r] # PyNone}

\* The raw text of a parsed request: the response text, stripped.
RawOf(r) == Strip(response[r].text)

HasBoth(raw) == Contains(raw, SUMMARY_MARK) /\ Contains(raw, GRADE_MARK)

\* The text after the first GRADE: marker.
AfterGrade(raw) == SubSeq(raw, Find(raw, GRADE_MARK) + Len(GRADE_MARK), Len(raw))

\* The positions strictly between the end of the first SUMMARY: marker and
\* the start of the first GRADE: marker.
Between(raw) ==
    (Find(raw, SUMMARY_MARK) + Len(SUMMARY_MARK)) .. (Find(raw, GRADE_MARK) - 1)

\* The grade letter is a valid token or empty, and empty only if no valid
\* token occurs after the first GRADE: marker.
GradeWellFormed(r) ==
    /\ parsed[r].grade_letter \in valid_grades \cup {<<>>}
    /\ parsed[r].grade_letter = <<>> =>
          \A g \in valid_grades : ~Contains(AfterGrade(RawOf(r)), g)

\* C1, as stated: for every response text that contains both SUMMARY: and
\* GRADE:, the parser returns a non-empty summary and a grade letter that is
\* one of the 13 tokens, or "" only if no valid token occurs after the first
\* GRADE: marker.
C1_Original ==
    \A r \in Parsed :
        HasBoth(RawOf(r)) => parsed[r].summary # <<>> /\ GradeWellFormed(r)

\* C1, amended: for every response text that contains both markers, the
\* summary is the text between the end of the first SUMMARY: and the start of
\* the first GRADE:, trimmed; it is non-empty exactly when a character other
\* than whitespace lies there (never when GRADE: comes first); the grade
\* letter is one of the 13 tokens, or "" only if no valid token occurs after
\* the first GRADE: marker.
C1_Parser ==
    \A r \in Parsed :
        LET raw == RawOf(r)
            B   == {k \in Between(raw) : ~IsSpace(raw[k])}
        IN  HasBoth(raw) =>
              /\ GradeWellFormed(r)
              /\ parsed[r].summary # <<>> <=> B # {}
              /\ B # {} =>
                   parsed[r].summary = SubSeq(raw, Min(B), CHOOSE k \in B : \A j \in B : j <= k)

\* A response "SUMMARY:xGRADE:B" was parsed into summary "x" and grade "B".
C1_Witness ==
    \E r \in Parsed :
        /\ RawOf(r) = SUMMARY_MARK \o <<"x">> \o GRADE_MARK \o <<"B">>
        /\ parsed[r].summary = <<"x">>
        /\ parsed[r].grade_letter = <<"B">>

\* The grade block of a parsed request with both markers.
BlockOf(r) == Strip(AfterGrade(RawOf(r)))

\* The block begins with token t, followed by whitespace or by nothing.
StartsWithToken(block, t) ==
    /\ Len(block) >= Len(t)
    /\ SubSeq(block, 1, Len(t)) = t
    /\ Len(block) > Len(t) => IsSpace(block[Len(t) + 1])

\* C2: when the first whitespace-delimited token of the grade block is one of
\* the 13 valid tokens, the grade letter is exactly that token, whatever
\* valid tokens occur later in the block.
C2_FirstToken ==
    \A r \in Parsed :
        HasBoth(RawOf(r)) =>
            \A t \in valid_grades :
                StartsWithToken(BlockOf(r), t) => parsed[r].grade_letter = t

\* The grade block "B B+" was parsed into the grade letter "B".
C2_Witness ==
    \E r \in Parsed :
        /\ HasBoth(RawOf(r))
        /\ BlockOf(r) = <<"B", " ", "B", "+">>
        /\ parsed[r].grade_letter = <<"B">>

\* The fallback priority list of the claim.
PriorityList ==
    << <<"A", "+">>, <<"A", "-">>, <<"B", "+">>, <<"B", "-">>,
       <<"C", "+">>, <<"C", "-">>, <<"D", "+">>, <<"D", "-">>,
       <<"A">>, <<"B">>, <<"C">>, <<"D">>, <<"F">> >>

\* C3: when the first token of the grade block is not a valid token, the
\* grade letter is the earliest entry of the priority list that occurs
\* anywhere in the block; a block in which a modifier token occurs never
\* yields a bare letter.
C3_FallbackScan ==
    \A r \in Parsed :
        LET block == BlockOf(r)
            Hits  == {k \in DOMAIN PriorityList : Contains(block, PriorityList[k])}
        IN  (HasBoth(RawOf(r)) /\ ~\E t \in valid_grades : StartsWithToken(block, t)) =>
              /\ Hits # {} => parsed[r].grade_letter = PriorityList[Min(Hits)]
              /\ Hits = {} => parsed[r].grade_letter = <<>>
              /\ (\E g \in valid_grades : Len(g) = 2 /\ Contains(block, g)) =>
                    Len(parsed[r].grade_letter) = 2

\* The grade block "xAA-", where the bare A stands before A-, gave "A-".
C3_Witness ==
    \E r \in Parsed :
        /\ HasBoth(RawOf(r))
        /\ BlockOf(r) = <<"x", "A", "A", "-">>
        /\ parsed[r].grade_letter = <<"A", "-">>

\* C4: when neither SUMMARY: nor GRADE: occurs in the response, the request
\* is answered 200 with the whole raw text (the response text as the handler
\* holds it in raw, which is stripped) as summary, an empty grade and the
\* grade text "Grade not detected.".
C4_Degraded ==
    \A r \in Req :
        (/\ endpoint[r] = "analyze"
         /\ pc[r] = "done"
         /\ response[r] # PyNone
         /\ response[r].ok
         /\ ~Contains(response[r].text, SUMMARY_MARK)
         /\ ~Contains(response[r].text, GRADE_MARK)) =>
            /\ result[r].status = 200
            /\ result[r].body =
                 PyDict([summary    |-> PyText(RawOf(r)),
                         grade      |-> PyText(<<>>),
                         grade_text |-> PyText(GRADE_NOT_DETECTED)])

\* The response " xB" without markers was answered 200 with summary "xB".
C4_Witness ==
    \E r \in Req :
        /\ pc[r] = "done"
        /\ response[r] # PyNone
        /\ response[r].ok
        /\ response[r].text = <<" ", "x", "B">>
        /\ result[r].status = 200
        /\ result[r].body.d.summary = PyText(<<"x", "B">>)

\* The /api/analyze requests whose stat lines are formatted and whose body
\* is, unchanged, the 200 response of a Batter /api/player-stats request.
FedBatter ==
    {r \in Req : /\ endpoint[r] = "analyze"
                 /\ role[r] # PyNone
                 /\ \E s \in Req : /\ endpoint[s] = "stats"
                                   /\ pc[s] = "done"
                                   /\ result[s].status = 200
                                   /\ data[s].type = PyStr("Batter")
                                   /\ data[r] = result[s].body}

\* The stat-line block of r has a line that reads key k of the body.
HasLine(r, k) ==
    \E i \in DOMAIN role[r].stat_lines :
        /\ role[r].stat_lines[i].key = k
        /\ role[r].stat_lines[i].value = data[r].d[k]

\* C5, as stated: every field key of a Batter /api/player-stats response has
\* a labeled line in the stat-line block /api/analyze assembles from it.
C5_Original == \A r \in FedBatter : \A k \in DOMAIN data[r].d : HasLine(r, k)

\* C5, amended: every field key of a Batter /api/player-stats response other
\* than name, year, type and team has a labeled line in the stat-line block
\* /api/analyze assembles from it, and that line carries the field's value.
C5_StatFields ==
    \A r \in FedBatter :
        \A k \in DOMAIN data[r].d \ {"name", "year", "type", "team"} : HasLine(r, k)

\* A Batter response with the 20 fields of the stats dict was fed to
\* /api/analyze and its 16 stat lines were formatted.
C5_Witness ==
    \E r \in FedBatter :
        /\ Cardinality(DOMAIN data[r].d) = 20
        /\ Len(role[r].stat_lines) = 16
        /\ data[r].d.wrc_plus = PyInt(141)

\* The /api/player-stats requests that have been answered.
StatsDone == {r \in Req : endpoint[r] = "stats" /\ pc[r] = "done"}

\* name or year is missing: absent, empty or zero.
StatsMissing(r) ==
    \/ data[r].name \in {PyNone, PyStr("")}
    \/ data[r].year \in {PyNone, PyInt(0)}

\* The provider returned a frame with a Name column.
LookedUp(r) == df[r] \notin {PyNone, Raises} /\ "Name" \in df[r].columns

\* The rows of the frame that have exactly the requested name.
Matching(r) == {i \in DOMAIN df[r].rows : df[r].rows[i]["Name"] = data[r].name}

\* A cell of the first matching row that the handler converts with int() is
\* NaN, or one it converts with int() or float() is text.
BadCell(r) ==
    LET row == df[r].rows[Min(Matching(r))]
    IN  \E c \in DOMAIN row \ {"Name", "Team"} :
            \/ row[c].t = "str"
            \/ /\ row[c].t = "nan"
               /\ c \in {"G", "AB", "H", "2B", "3B", "HR", "RBI", "SB", "BB", "SO",
                         "wRC+", "GS", "W", "L", "SV"}

\* C6: a /api/player-stats request ends in exactly one of: 400 when name or
\* year is missing, before any provider lookup; 404 with the body
\* {"error": "Player not found"} when the lookup succeeds and no row has the
\* requested name; 500 when the lookup or a field conversion raises; 200
\* with the stat object otherwise.
C6_StatsOutcome ==
    \A r \in StatsDone :
        /\ result[r].status \in {200, 400, 404, 500}
        /\ result[r].status = 400 <=> StatsMissing(r)
        /\ result[r].status = 400 => df[r] = PyNone /\ stages[r] = <<"validation", "response">>
        /\ result[r].status = 404 <=>
              (~StatsMissing(r) /\ LookedUp(r) /\ Matching(r) = {})
        /\ result[r].status = 404 =>
              result[r].body = PyDict([error |-> PyStr("Player not found")])
        /\ result[r].status = 500 <=>
              /\ ~StatsMissing(r)
              /\ \/ df[r] = Raises
                 \/ ~LookedUp(r)
                 \/ Matching(r) # {} /\ BadCell(r)
        /\ result[r].status = 200 =>
              /\ Matching(r) # {}
              /\ result[r].body.t = "dict"
              /\ result[r].body.d.name = data[r].name
              /\ result[r].body.d.type = data[r].type

\* A request for a player the season's frame does not hold was answered 404.
C6_Witness ==
    \E r \in StatsDone :
        /\ data[r].name = PyStr("Zed")
        /\ LookedUp(r)
        /\ df[r].rows # <<>>
        /\ result[r] = ErrorResult(404, "Player not found")

\* The /api/analyze requests that have been answered.
AnalyzeDone == {r \in Req : endpoint[r] = "analyze" /\ pc[r] = "done"}

\* name, year or type is missing from the body of r.
AnalyzeMissing(r) ==
    \/ data[r].t # "dict"
    \/ \E k \in {"name", "year", "type"} :
          k \notin DOMAIN data[r].d \/ ~Truthy(data[r].d[k])

\* C7: a /api/analyze request with name, year or type missing is answered
\* 400; any other is answered 500 with an error message and no summary or
\* grade, or 200 with summary, grade and grade_text; none ends in an
\* exception the handler does not catch.
C7_AnalyzeOutcome ==
    \A r \in AnalyzeDone :
        /\ result[r] # Unhandled
        /\ AnalyzeMissing(r) => result[r].status = 400
        /\ ~AnalyzeMissing(r) => result[r].status \in {200, 500}
        /\ result[r].status \in {400, 500} => DOMAIN result[r].body.d = {"error"}
        /\ result[r].status = 200 =>
              DOMAIN result[r].body.d = {"summary", "grade", "grade_text"}

\* The labels of a stat-line block, in order.
Labels(lines) == [i \in DOMAIN lines |-> lines[i].label]
TableLabels(table) == [i \in DOMAIN table |-> table[i][1]]

\* The prompt of r holds the batter table with the batter lines.
BatterPrompt(r) ==
    /\ prompt[r].grade_benchmarks = BatterBenchmarks
    /\ prompt[r].role_context = "position player (batter)"
    /\ Labels(prompt[r].stats_block) = TableLabels(BatterLines)

\* The prompt of r holds the pitcher table with the pitcher lines.
PitcherPrompt(r) ==
    /\ prompt[r].grade_benchmarks = PitcherBenchmarks
    /\ prompt[r].role_context = "pitcher"
    /\ Labels(prompt[r].stats_block) = TableLabels(PitcherLines)

\* C8: the prompt of a payload of type "Pitcher" holds the pitcher benchmark
\* table with the pitcher stat lines, that of a payload of type "Batter" the
\* batter table with the batter lines, and no prompt mixes the two.
C8_RoleSelection ==
    \A r \in Req :
        (endpoint[r] = "analyze" /\ prompt[r] # PyNone) =>
            /\ data[r].d.type = PyStr("Pitcher") => PitcherPrompt(r)
            /\ data[r].d.type = PyStr("Batter") => BatterPrompt(r)
            /\ BatterPrompt(r) \/ PitcherPrompt(r)

\* A prompt was assembled for a Pitcher payload, with the pitcher table.
C8_Witness ==
    \E r \in Req :
        /\ endpoint[r] = "analyze"
        /\ prompt[r] # PyNone
        /\ data[r].d.type = PyStr("Pitcher")
        /\ prompt[r].grade_benchmarks = PitcherBenchmarks
        /\ Len(prompt[r].stats_block) = 14

\* The stages of the claim, in their order.
StageOrder ==
    <<"validation", "formatting", "assembly", "call", "parsing", "response">>

\* C9: the stages a /api/analyze request has gone through are the first
\* stages of the fixed order, each once, ended by the response when it is
\* answered; so the text service is called at most once, never for a request
\* answered 400 and never again after a failure; a 200 went through all six.
C9_StageOrder ==
    \A r \in Req :
        endpoint[r] = "analyze" =>
            /\ \E n \in 0..(Len(StageOrder) - 1) :
                  \/ stages[r] = SubSeq(StageOrder, 1, n)
                  \/ pc[r] = "done" /\ stages[r] = SubSeq(StageOrder, 1, n) \o <<"response">>
            /\ Cardinality({i \in DOMAIN stages[r] : stages[r][i] = "call"}) <= 1
            /\ result[r].status = 400 => stages[r] = <<"validation", "response">>
            /\ result[r].status = 200 => stages[r] = StageOrder

\* A request whose text-service call failed was answered 500 after that one
\* call.
C9_Witness ==
    \E r \in AnalyzeDone :
        /\ result[r].status = 500
        /\ response[r] = PyNone
        /\ stages[r] = <<"validation", "formatting", "assembly", "call", "response">>

\* C10: no request handler changes process-wide state shared with other
\* requests, the text-generation client of get_gemini included.
C10_NoSharedMutation == [][_gemini' = _gemini]_vars

\* C10, its consequence: the requests that hold a client hold the same one.
C10_OneClient ==
    \A r, s \in Req :
        (client[r] # PyNone /\ client[s] # PyNone) => client[r] = client[s]

====
